---- MODULE Spec2Model ----
(***************************************************************************)
(* Model of the Stockfighter client library (src/src/lib.rs).              *)
(*                                                                         *)
(* Every public operation is one action: it builds its URL, sends one      *)
(* request, reads the body, decodes it with serde_json into the Rust       *)
(* struct of the operation and replaces the object.  The network is the    *)
(* environment: it fails the send, fails the read, or returns a body.      *)
(*                                                                         *)
(* An operation reads and writes its own self only (the library has no     *)
(* shared state), so a behaviour follows the calls made on one object:     *)
(* args.target names the type the caller works on, and the objects of the  *)
(* other types stay as constructed.  Orders are built fresh per call.      *)
(***************************************************************************)
EXTENDS Integers, Sequences, FiniteSets, TLC

VARIABLES venue, api, stocks, book, quote, args, last

vars == <<venue, api, stocks, book, quote, args, last>>

(***************************************************************************)
(* Bounds of the model.                                                    *)
(***************************************************************************)
MaxPrice == 1
MaxLevels == 1

(***************************************************************************)
(* Program constants.                                                      *)
(***************************************************************************)
STOCKFIGHTER_API_URL == "https://api.stockfighter.io/ob/api"

(***************************************************************************)
(* JSON values.  One record shape for every value, so that values of       *)
(* different JSON types can sit in one body: t is the JSON type, and the   *)
(* payload is in the field of that type.                                   *)
(***************************************************************************)
JNull == [t |-> "null", s |-> "", n |-> 0, b |-> FALSE, a |-> <<>>]
JStr(x) == [t |-> "str", s |-> x, n |-> 0, b |-> FALSE, a |-> <<>>]
JNum(x) == [t |-> "num", s |-> "", n |-> x, b |-> FALSE, a |-> <<>>]
JBool(x) == [t |-> "bool", s |-> "", n |-> 0, b |-> x, a |-> <<>>]
JArr(x) == [t |-> "arr", s |-> "", n |-> 0, b |-> FALSE, a |-> x]
\* A JSON number that is no i32: 2147483648, 1.5.
JBigNum == [t |-> "bignum", s |-> "", n |-> 0, b |-> FALSE, a |-> <<>>]

\* Every key that a response body of the model can carry.
AllKeys ==
  {"ok", "venue", "error", "symbols", "symbol", "bids", "asks", "ts",
   "bid", "ask", "bidSize", "askSize", "bidDepth", "askDepth", "last",
   "lastSize", "lastTrade", "quoteTime", "direction", "originalQty", "qty",
   "price", "orderType", "id", "account", "fills", "totalFilled", "open"}

\* A body that is a JSON object with the members of the record r.
Obj(r) ==
  [wf |-> TRUE, keys |-> DOMAIN r,
   val |-> [k \in AllKeys |-> IF k \in DOMAIN r THEN r[k] ELSE JNull]]

\* A body that is not a JSON object at all (empty, HTML, truncated).
NotJson == [wf |-> FALSE, keys |-> {}, val |-> [k \in AllKeys |-> JNull]]

(***************************************************************************)
(* The derived Deserialize implementations.  A field is                    *)
(* <<struct field, wire key, type, has #[serde(default)]>>.                *)
(***************************************************************************)
F(name, key, ty, opt) == [name |-> name, key |-> key, ty |-> ty, opt |-> opt]

StockfighterVenue ==
  << F("venue", "venue", "str", TRUE),
     F("ok", "ok", "bool", FALSE),
     F("error", "error", "str", TRUE) >>

Stock ==
  << F("name", "name", "str", FALSE),
     F("symbol", "symbol", "str", FALSE) >>

StockfighterVenueStocks ==
  << F("ok", "ok", "bool", FALSE),
     F("symbols", "symbols", "vec_stock", FALSE) >>

StockfighterAPI ==
  << F("error", "error", "str", FALSE),
     F("ok", "ok", "bool", FALSE) >>

OrderFill ==
  << F("price", "price", "i32", TRUE),
     F("qty", "qty", "i32", TRUE),
     F("ts", "ts", "str", TRUE) >>

OrderResponse ==
  << F("ok", "ok", "bool", FALSE),
     F("error", "error", "str", TRUE),
     F("symbol", "symbol", "str", TRUE),
     F("venue", "venue", "str", TRUE),
     F("direction", "direction", "str", TRUE),
     F("original_qty", "originalQty", "i32", TRUE),
     F("qty", "qty", "i32", TRUE),
     F("price", "price", "i32", TRUE),
     F("order_type", "orderType", "str", TRUE),
     F("id", "id", "i32", TRUE),
     F("account", "account", "str", TRUE),
     F("ts", "ts", "str", TRUE),
     F("fills", "fills", "vec_fill", TRUE),
     F("total_filled", "totalFilled", "i32", TRUE),
     F("open", "open", "bool", TRUE) >>

Bid ==
  << F("price", "price", "i32", FALSE),
     F("qty", "qty", "i32", FALSE),
     F("is_buy", "isBuy", "bool", FALSE) >>

OrderBook ==
  << F("ok", "ok", "bool", FALSE),
     F("venue", "venue", "str", FALSE),
     F("symbol", "symbol", "str", FALSE),
     F("bids", "bids", "vec_bid", FALSE),
     F("asks", "asks", "vec_bid", FALSE),
     F("ts", "ts", "str", FALSE) >>

Quote ==
  << F("ok", "ok", "bool", FALSE),
     F("symbol", "symbol", "str", FALSE),
     F("venue", "venue", "str", FALSE),
     F("bid", "bid", "i32", TRUE),
     F("ask", "ask", "i32", TRUE),
     F("bid_size", "bidSize", "i32", TRUE),
     F("ask_size", "askSize", "i32", TRUE),
     F("bid_depth", "bidDepth", "i32", TRUE),
     F("ask_depth", "askDepth", "i32", TRUE),
     F("last", "last", "i32", TRUE),
     F("last_size", "lastSize", "i32", TRUE),
     F("last_trade", "lastTrade", "str", TRUE),
     F("quote_time", "quoteTime", "str", TRUE) >>

\* The element struct of a Vec field.
ElemSchema(ty) ==
  CASE ty = "vec_stock" -> Stock
    [] ty = "vec_bid" -> Bid
    [] ty = "vec_fill" -> OrderFill

IsVec(ty) == ty \in {"vec_stock", "vec_bid", "vec_fill"}

\* Default::default() of a field type.
DefaultOf(ty) ==
  CASE ty = "bool" -> FALSE
    [] ty = "str" -> ""
    [] ty = "i32" -> 0
    [] OTHER -> <<>>

Names(schema) == {schema[i].name : i \in 1..Len(schema)}
FieldOf(schema, name) ==
  CHOOSE f \in {schema[i] : i \in 1..Len(schema)} : f.name = name

\* An array element (a JSON object given as a record of native values whose
\* domain is the keys it carries) decodes when every field without a
\* default is there.
ElemOk(e, schema) ==
  \A i \in 1..Len(schema) : schema[i].opt \/ schema[i].key \in DOMAIN e

DecodeElem(e, schema) ==
  [nm \in Names(schema) |->
     LET f == FieldOf(schema, nm)
     IN IF f.key \in DOMAIN e THEN e[f.key] ELSE DefaultOf(f.ty)]

\* Does the JSON value j decode as the field type ty?
ValueOk(j, ty) ==
  CASE ty = "i32" -> j.t = "num"
    [] IsVec(ty) -> /\ j.t = "arr"
                    /\ \A i \in 1..Len(j.a) : ElemOk(j.a[i], ElemSchema(ty))
    [] OTHER -> j.t = ty

NativeOf(j, ty) ==
  CASE ty = "bool" -> j.b
    [] ty = "str" -> j.s
    [] ty = "i32" -> j.n
    [] OTHER -> [i \in 1..Len(j.a) |-> DecodeElem(j.a[i], ElemSchema(ty))]

\* serde_json::from_str(&body) succeeds: the body is an object, every field
\* it carries has the field's type, and only defaulted fields are missing.
\* Members that are not fields of the struct are ignored.
from_str_ok(body, schema) ==
  /\ body.wf
  /\ \A i \in 1..Len(schema) :
       IF schema[i].key \in body.keys
       THEN ValueOk(body.val[schema[i].key], schema[i].ty)
       ELSE schema[i].opt

\* The value serde_json::from_str(&body) yields when it succeeds.
from_str(body, schema) ==
  [nm \in Names(schema) |->
     LET f == FieldOf(schema, nm)
     IN IF f.key \in body.keys
        THEN NativeOf(body.val[f.key], f.ty)
        ELSE DefaultOf(f.ty)]

(***************************************************************************)
(* What a call hands back and what it put on the wire.                     *)
(***************************************************************************)
\* The OrderResponse slot of a result that carries none.
NoResponse == from_str(Obj([ok |-> JBool(FALSE)]), OrderResponse)

\* Ok(flag) of a Result<bool, StockfighterErr>.
Ok(flag) ==
  [kind |-> "Ok", err |-> "None", msg |-> "", flag |-> flag,
   resp |-> NoResponse]

\* Ok(resp) of a Result<OrderResponse, StockfighterErr>.
OkResponse(resp) ==
  [kind |-> "Ok", err |-> "None", msg |-> "", flag |-> FALSE, resp |-> resp]

\* Err(e): try! converts the library error with From into the variant
\* Hyper, IO or Serde; NoSuchVenue carries a String.
Err(variant, msg) ==
  [kind |-> "Err", err |-> variant, msg |-> msg, flag |-> FALSE,
   resp |-> NoResponse]

get_apikey == "STOCKFIGHTERAPI"

\* client.get(&url).header(Connection::close()).send()
Get(url) ==
  [method |-> "GET", url |-> url, header |-> <<"Connection", "close">>,
   body |-> <<>>]

\* client.post(&url).body(&body).headers(headers).send()
Post(url, body) ==
  [method |-> "POST", url |-> url,
   header |-> <<"X-Starfighter-Authorization", get_apikey>>,
   body |-> <<body>>]

\* The outcome of a call: the object afterwards, the returned Result and
\* the requests sent.
Out(self, ret, reqs) == [self |-> self, ret |-> ret, reqs |-> reqs]

(***************************************************************************)
(* Constructors.                                                           *)
(***************************************************************************)
StockfighterVenue_new(v) == [venue |-> v, ok |-> FALSE, error |-> ""]

StockfighterVenueStocks_new == [ok |-> FALSE, symbols |-> <<>>]

StockfighterAPI_new == [error |-> "", ok |-> FALSE]

OrderBook_new(v, stock) ==
  [ok |-> FALSE, venue |-> v, symbol |-> stock, bids |-> <<>>,
   asks |-> <<>>, ts |-> ""]

Quote_new(v, symbol) ==
  [ok |-> FALSE, symbol |-> symbol, venue |-> v, bid |-> 0, ask |-> 0,
   bid_size |-> 0, ask_size |-> 0, bid_depth |-> 0, ask_depth |-> 0,
   last |-> 0, last_size |-> 0, last_trade |-> "", quote_time |-> ""]

Order_new(account, v, stock, price, qty, direction, order_type) ==
  [account |-> account, venue |-> v, stock |-> stock, price |-> price,
   qty |-> qty, direction |-> direction, order_type |-> order_type]

(***************************************************************************)
(* The operations.  net is what the network does to the one request:       *)
(* kind is "send_err" (send() fails), "read_err" (read_to_string fails)    *)
(* or "body" (the body arrives).  try! returns at the first failure.       *)
(***************************************************************************)
\* A faulty variant of the venue heartbeat: a field-by-field merge, where a
\* field the body omits keeps the value it had.
StockfighterVenue_heartbeat_merge(self, net) ==
  LET cleared == [self EXCEPT !.ok = FALSE]
      reqs == << Get(<<STOCKFIGHTER_API_URL, "venues", self.venue,
                       "heartbeat">>) >>
  IN CASE net.kind = "send_err" -> Out(cleared, Err("Hyper", ""), reqs)
       [] net.kind = "read_err" -> Out(cleared, Err("IO", ""), reqs)
       [] net.kind = "body" /\ ~from_str_ok(net.body, StockfighterVenue) ->
            Out(cleared, Err("Serde", ""), reqs)
       [] OTHER ->
            LET deserialized == from_str(net.body, StockfighterVenue)
                merged ==
                  [deserialized EXCEPT
                     !.error = IF "error" \in net.body.keys
                               THEN deserialized.error ELSE self.error]
            IN Out(merged, Ok(merged.ok), reqs)

StockfighterVenue_heartbeat(self, net) ==
  LET cleared == [self EXCEPT !.ok = FALSE]
      reqs == << Get(<<STOCKFIGHTER_API_URL, "venues", self.venue,
                       "heartbeat">>) >>
  IN CASE net.kind = "send_err" -> Out(cleared, Err("Hyper", ""), reqs)
       [] net.kind = "read_err" -> Out(cleared, Err("IO", ""), reqs)
       [] net.kind = "body" /\ ~from_str_ok(net.body, StockfighterVenue) ->
            Out(cleared, Err("Serde", ""), reqs)
       [] OTHER ->
            LET deserialized == from_str(net.body, StockfighterVenue)
            IN Out(deserialized, Ok(deserialized.ok), reqs)

\* stock_listing does not clear self.ok before the request.
StockfighterVenueStocks_stock_listing(self, v, net) ==
  LET reqs == << Get(<<STOCKFIGHTER_API_URL, "venues", v, "stocks">>) >>
  IN CASE net.kind = "send_err" -> Out(self, Err("Hyper", ""), reqs)
       [] net.kind = "read_err" -> Out(self, Err("IO", ""), reqs)
       [] net.kind = "body"
            /\ ~from_str_ok(net.body, StockfighterVenueStocks) ->
            Out(self, Err("Serde", ""), reqs)
       [] OTHER ->
            LET deserialized == from_str(net.body, StockfighterVenueStocks)
            IN Out(deserialized, Ok(deserialized.ok), reqs)

StockfighterAPI_heartbeat(self, net) ==
  LET cleared == [self EXCEPT !.ok = FALSE]
      reqs == << Get(<<STOCKFIGHTER_API_URL, "heartbeat">>) >>
  IN CASE net.kind = "send_err" -> Out(cleared, Err("Hyper", ""), reqs)
       [] net.kind = "read_err" -> Out(cleared, Err("IO", ""), reqs)
       [] net.kind = "body" /\ ~from_str_ok(net.body, StockfighterAPI) ->
            Out(cleared, Err("Serde", ""), reqs)
       [] OTHER ->
            LET deserialized == from_str(net.body, StockfighterAPI)
            IN Out(deserialized, Ok(deserialized.ok), reqs)

\* serde_json::to_string(&self): the wire keys of Order; stock and the
\* other fields keep their names, order_type is renamed orderType.
Order_encode_order(self) ==
  [account |-> self.account, venue |-> self.venue, stock |-> self.stock,
   price |-> self.price, qty |-> self.qty, direction |-> self.direction,
   orderType |-> self.order_type]

Order_order_url(self) ==
  <<STOCKFIGHTER_API_URL, "venues", self.venue, "stocks", self.stock,
    "orders">>

\* A faulty variant of process_order: a failed send is sent again.
Order_process_order_retry(self, net) ==
  LET req == Post(Order_order_url(self), Order_encode_order(self))
  IN CASE net.kind = "send_err" ->
            Out(self, Err("Hyper", ""), <<req, req>>)
       [] net.kind = "read_err" -> Out(self, Err("IO", ""), <<req>>)
       [] net.kind = "body" /\ ~from_str_ok(net.body, OrderResponse) ->
            Out(self, Err("Serde", ""), <<req>>)
       [] OTHER ->
            Out(self, OkResponse(from_str(net.body, OrderResponse)), <<req>>)

\* process_order takes &self: the Order is left as it is.
Order_process_order(self, net) ==
  LET reqs == << Post(Order_order_url(self), Order_encode_order(self)) >>
  IN CASE net.kind = "send_err" -> Out(self, Err("Hyper", ""), reqs)
       [] net.kind = "read_err" -> Out(self, Err("IO", ""), reqs)
       [] net.kind = "body" /\ ~from_str_ok(net.body, OrderResponse) ->
            Out(self, Err("Serde", ""), reqs)
       [] OTHER ->
            Out(self, OkResponse(from_str(net.body, OrderResponse)), reqs)

\* A faulty variant of refresh: a failed call empties the snapshot.
OrderBook_refresh_zeroing(self, net) ==
  LET cleared == OrderBook_new(self.venue, self.symbol)
      reqs == << Get(<<STOCKFIGHTER_API_URL, "venues", self.venue, "stocks",
                       self.symbol>>) >>
  IN CASE net.kind = "send_err" -> Out(cleared, Err("Hyper", ""), reqs)
       [] net.kind = "read_err" -> Out(cleared, Err("IO", ""), reqs)
       [] net.kind = "body" /\ ~from_str_ok(net.body, OrderBook) ->
            Out(cleared, Err("Serde", ""), reqs)
       [] OTHER ->
            LET deserialized == from_str(net.body, OrderBook)
            IN Out(deserialized, Ok(deserialized.ok), reqs)

OrderBook_refresh(self, net) ==
  LET cleared == [self EXCEPT !.ok = FALSE]
      reqs == << Get(<<STOCKFIGHTER_API_URL, "venues", self.venue, "stocks",
                       self.symbol>>) >>
  IN CASE net.kind = "send_err" -> Out(cleared, Err("Hyper", ""), reqs)
       [] net.kind = "read_err" -> Out(cleared, Err("IO", ""), reqs)
       [] net.kind = "body" /\ ~from_str_ok(net.body, OrderBook) ->
            Out(cleared, Err("Serde", ""), reqs)
       [] OTHER ->
            LET deserialized == from_str(net.body, OrderBook)
            IN Out(deserialized, Ok(deserialized.ok), reqs)

\* A faulty variant of get_quote: a body that does not parse as a Quote is
\* tried as the failure shape {ok, error} and reported as NoSuchVenue.
Quote_get_quote_two_shape(self, net) ==
  LET cleared == [self EXCEPT !.ok = FALSE]
      reqs == << Get(<<STOCKFIGHTER_API_URL, "venues", self.venue, "stocks",
                       self.symbol, "quote">>) >>
  IN CASE net.kind = "send_err" -> Out(cleared, Err("Hyper", ""), reqs)
       [] net.kind = "read_err" -> Out(cleared, Err("IO", ""), reqs)
       [] net.kind = "body" /\ ~from_str_ok(net.body, Quote)
            /\ from_str_ok(net.body, StockfighterAPI) ->
            Out(cleared,
                Err("NoSuchVenue", from_str(net.body, StockfighterAPI).error),
                reqs)
       [] net.kind = "body" /\ ~from_str_ok(net.body, Quote) ->
            Out(cleared, Err("Serde", ""), reqs)
       [] OTHER ->
            LET deserialized == from_str(net.body, Quote)
            IN Out(deserialized, Ok(TRUE), reqs)

\* A faulty variant of get_quote: a field-by-field merge, where a field the
\* body omits keeps the value it had.
Quote_get_quote_merge(self, net) ==
  LET cleared == [self EXCEPT !.ok = FALSE]
      reqs == << Get(<<STOCKFIGHTER_API_URL, "venues", self.venue, "stocks",
                       self.symbol, "quote">>) >>
  IN CASE net.kind = "send_err" -> Out(cleared, Err("Hyper", ""), reqs)
       [] net.kind = "read_err" -> Out(cleared, Err("IO", ""), reqs)
       [] net.kind = "body" /\ ~from_str_ok(net.body, Quote) ->
            Out(cleared, Err("Serde", ""), reqs)
       [] OTHER ->
            LET deserialized == from_str(net.body, Quote)
                merged ==
                  [nm \in Names(Quote) |->
                     IF FieldOf(Quote, nm).key \in net.body.keys
                     THEN deserialized[nm] ELSE self[nm]]
            IN Out(merged, Ok(TRUE), reqs)

\* get_quote returns Ok( true ), whatever the decoded ok is.
Quote_get_quote(self, net) ==
  LET cleared == [self EXCEPT !.ok = FALSE]
      reqs == << Get(<<STOCKFIGHTER_API_URL, "venues", self.venue, "stocks",
                       self.symbol, "quote">>) >>
  IN CASE net.kind = "send_err" -> Out(cleared, Err("Hyper", ""), reqs)
       [] net.kind = "read_err" -> Out(cleared, Err("IO", ""), reqs)
       [] net.kind = "body" /\ ~from_str_ok(net.body, Quote) ->
            Out(cleared, Err("Serde", ""), reqs)
       [] OTHER ->
            LET deserialized == from_str(net.body, Quote)
            IN Out(deserialized, Ok(TRUE), reqs)

(***************************************************************************)
(* The environment: the arguments of the caller and the bodies of the      *)
(* server.                                                                 *)
(***************************************************************************)
Venues == {"TESTEX", "ABCDEF"}
Symbols == {"FOOBAR"}
Prices == 1..MaxPrice
NoVenueMsg == "No venue exists with that id"

SendErr == [kind |-> "send_err", body |-> NotJson]
ReadErr == [kind |-> "read_err", body |-> NotJson]
Body(b) == [kind |-> "body", body |-> b]
Net(bodies) == {SendErr, ReadErr} \cup {Body(b) : b \in bodies}

VenueSuccessBody(v) == Obj([ok |-> JBool(TRUE), venue |-> JStr(v)])
VenueFailureBody == Obj([ok |-> JBool(FALSE), error |-> JStr(NoVenueMsg)])

VenueBodies ==
  {VenueSuccessBody(v) : v \in Venues}
  \cup {VenueFailureBody,
        Obj([ok |-> JBool(TRUE)]),
        Obj([venue |-> JStr("TESTEX")]),
        Obj([ok |-> JStr("true"), venue |-> JStr("TESTEX")]),
        NotJson}

ApiBodies ==
  {Obj([ok |-> JBool(TRUE), error |-> JStr("")]),
   Obj([ok |-> JBool(FALSE), error |-> JStr("down")]),
   Obj([ok |-> JBool(TRUE)]),
   NotJson}

StocksBodies ==
  {Obj([ok |-> JBool(TRUE), symbols |-> JArr(<<>>)]),
   Obj([ok |-> JBool(TRUE),
        symbols |-> JArr(<<[name |-> "Foo Bar", symbol |-> "FOOBAR"]>>)]),
   Obj([ok |-> JBool(TRUE), symbols |-> JArr(<<[name |-> "Foo Bar"]>>)]),
   VenueFailureBody,
   NotJson}

\* The sequences of at most MaxLevels price levels of one side.
RECURSIVE LevelSeqs(_, _)
LevelSeqs(n, isBuy) ==
  IF n = 0 THEN {<<>>}
  ELSE LET shorter == LevelSeqs(n - 1, isBuy)
       IN shorter \cup
          {Append(q, [price |-> p, qty |-> 5, isBuy |-> isBuy]) :
             q \in {r \in shorter : Len(r) = n - 1}, p \in Prices}

BookBodies ==
  {Obj([ok |-> JBool(TRUE), venue |-> JStr(v), symbol |-> JStr("FOOBAR"),
        bids |-> JArr(b), asks |-> JArr(<<>>), ts |-> JStr("t1")]) :
     v \in Venues, b \in LevelSeqs(MaxLevels, TRUE)}
  \cup
  {Obj([ok |-> JBool(TRUE), venue |-> JStr("TESTEX"),
        symbol |-> JStr("FOOBAR"), bids |-> JArr(<<>>),
        asks |-> JArr(<<[price |-> MaxPrice, qty |-> 5, isBuy |-> FALSE]>>),
        ts |-> JStr("t2")]),
   Obj([ok |-> JBool(TRUE), venue |-> JStr("TESTEX"),
        symbol |-> JStr("FOOBAR"), bids |-> JNull, asks |-> JNull,
        ts |-> JStr("t1")]),
   Obj([ok |-> JBool(TRUE), venue |-> JStr("TESTEX"),
        symbol |-> JStr("FOOBAR"),
        bids |-> JArr(<<[price |-> 1, qty |-> 5]>>), asks |-> JArr(<<>>),
        ts |-> JStr("t1")]),
   VenueFailureBody,
   NotJson}

QuoteFull(v, p) ==
  [ok |-> JBool(TRUE), symbol |-> JStr("FOOBAR"), venue |-> JStr(v),
   bid |-> JNum(p), ask |-> JNum(p + 1), bidSize |-> JNum(5),
   askSize |-> JNum(5), bidDepth |-> JNum(10), askDepth |-> JNum(10),
   last |-> JNum(p), lastSize |-> JNum(5), lastTrade |-> JStr("t1"),
   quoteTime |-> JStr("t2")]

QuoteNoLast(v, p) ==
  [ok |-> JBool(TRUE), symbol |-> JStr("FOOBAR"), venue |-> JStr(v),
   bid |-> JNum(p), ask |-> JNum(p + 1), bidSize |-> JNum(5),
   askSize |-> JNum(5), bidDepth |-> JNum(10), askDepth |-> JNum(10),
   quoteTime |-> JStr("t2")]

QuoteBodies ==
  {Obj(QuoteFull(v, p)) : v \in Venues, p \in Prices}
  \cup {Obj(QuoteNoLast("TESTEX", p)) : p \in Prices}
  \cup
  {Obj([ok |-> JBool(TRUE), symbol |-> JStr("FOOBAR"),
        venue |-> JStr("TESTEX")]),
   Obj([ok |-> JBool(FALSE), symbol |-> JStr("FOOBAR"),
        venue |-> JStr("TESTEX")]),
   Obj([QuoteFull("TESTEX", 1) EXCEPT !.last = JStr("1")]),
   Obj([QuoteFull("TESTEX", 1) EXCEPT !.bid = JBigNum]),
   VenueFailureBody,
   NotJson}

OrderAck(p) ==
  [ok |-> JBool(TRUE), symbol |-> JStr("FOOBAR"), venue |-> JStr("TESTEX"),
   direction |-> JStr("buy"), originalQty |-> JNum(100), qty |-> JNum(95),
   price |-> JNum(p), orderType |-> JStr("limit"), id |-> JNum(7),
   account |-> JStr("ACCT1"), ts |-> JStr("t1"),
   fills |-> JArr(<<[price |-> p, qty |-> 5, ts |-> "t2"]>>),
   totalFilled |-> JNum(5), open |-> JBool(TRUE)]

OrderBodies ==
  {Obj(OrderAck(p)) : p \in Prices}
  \cup
  {Obj([ok |-> JBool(FALSE), error |-> JStr(NoVenueMsg)]),
   Obj([error |-> JStr(NoVenueMsg)]),
   Obj([OrderAck(1) EXCEPT !.id = JStr("7")]),
   NotJson}

Orders ==
  {Order_new("ACCT1", v, "FOOBAR", p, 100, "buy", "limit") :
     v \in Venues, p \in Prices}

(***************************************************************************)
(* The record of the most recent call: the operation, what the network     *)
(* did, the Result, the requests sent, and the target object before the    *)
(* call (in the slot of its type; the other slots are blank).              *)
(***************************************************************************)
NoPre ==
  [venue |-> StockfighterVenue_new(""), api |-> StockfighterAPI_new,
   stocks |-> StockfighterVenueStocks_new, book |-> OrderBook_new("", ""),
   quote |-> Quote_new("", "")]

Call(op, net, out, pre) ==
  [op |-> op, net |-> net, ret |-> out.ret, reqs |-> out.reqs, pre |-> pre]

Targets == {"venue", "api", "stocks", "order", "book", "quote"}

Init ==
  /\ args \in [target : Targets, venue : Venues, symbol : Symbols]
  /\ venue = StockfighterVenue_new(args.venue)
  /\ api = StockfighterAPI_new
  /\ stocks = StockfighterVenueStocks_new
  /\ book = OrderBook_new(args.venue, args.symbol)
  /\ quote = Quote_new(args.venue, args.symbol)
  /\ last = [op |-> "new", net |-> SendErr, ret |-> Ok(FALSE), reqs |-> <<>>,
             pre |-> NoPre]

VenueHeartbeat ==
  /\ args.target = "venue"
  /\ \E net \in Net(VenueBodies) :
    LET out == StockfighterVenue_heartbeat(venue, net)
    IN /\ venue' = out.self
       /\ last' = Call("venue_heartbeat", net, out,
                       [NoPre EXCEPT !.venue = venue])
       /\ UNCHANGED <<api, stocks, book, quote, args>>

ApiHeartbeat ==
  /\ args.target = "api"
  /\ \E net \in Net(ApiBodies) :
    LET out == StockfighterAPI_heartbeat(api, net)
    IN /\ api' = out.self
       /\ last' = Call("api_heartbeat", net, out, [NoPre EXCEPT !.api = api])
       /\ UNCHANGED <<venue, stocks, book, quote, args>>

StockListing ==
  /\ args.target = "stocks"
  /\ \E net \in Net(StocksBodies) :
    LET out == StockfighterVenueStocks_stock_listing(stocks, args.venue, net)
    IN /\ stocks' = out.self
       /\ last' = Call("stock_listing", net, out,
                       [NoPre EXCEPT !.stocks = stocks])
       /\ UNCHANGED <<venue, api, book, quote, args>>

ProcessOrder ==
  /\ args.target = "order"
  /\ \E o \in Orders, net \in Net(OrderBodies) :
    LET out == Order_process_order(o, net)
    IN /\ last' = Call("process_order", net, out, NoPre)
       /\ UNCHANGED <<venue, api, stocks, book, quote, args>>

Refresh ==
  /\ args.target = "book"
  /\ \E net \in Net(BookBodies) :
    LET out == OrderBook_refresh(book, net)
    IN /\ book' = out.self
       /\ last' = Call("refresh", net, out, [NoPre EXCEPT !.book = book])
       /\ UNCHANGED <<venue, api, stocks, quote, args>>

GetQuote ==
  /\ args.target = "quote"
  /\ \E net \in Net(QuoteBodies) :
    LET out == Quote_get_quote(quote, net)
    IN /\ quote' = out.self
       /\ last' = Call("get_quote", net, out, [NoPre EXCEPT !.quote = quote])
       /\ UNCHANGED <<venue, api, stocks, book, args>>

Next ==
  \/ VenueHeartbeat
  \/ ApiHeartbeat
  \/ StockListing
  \/ ProcessOrder
  \/ Refresh
  \/ GetQuote

Spec == Init /\ [][Next]_vars

(***************************************************************************)
(* The shapes of a venue heartbeat body: the success shape {ok, venue} and *)
(* the failure shape {ok, error}.                                          *)
(***************************************************************************)
Has(b, key, ty) == b.wf /\ key \in b.keys /\ b.val[key].t = ty
SuccessShape(b) == Has(b, "ok", "bool") /\ Has(b, "venue", "str")
FailureShape(b) == Has(b, "ok", "bool") /\ Has(b, "error", "str")

IsOk == last.ret.kind = "Ok"
IsErr == last.ret.kind = "Err"
GotBody == last.net.kind = "body"

\* C1: a venue heartbeat that receives the failure body
\* {"ok":false,"error":"No venue exists with that id"} returns
\* Err(NoSuchVenue("No venue exists with that id")), not a success value, and
\* leaves venue.ok false.
C1_FailureBodyIsNoSuchVenue ==
  (last.op = "venue_heartbeat" /\ last.net = Body(VenueFailureBody)) =>
    /\ IsErr
    /\ last.ret.err = "NoSuchVenue"
    /\ last.ret.msg = NoVenueMsg
    /\ ~venue.ok

\* C2: a venue heartbeat whose body matches neither the success shape nor
\* the failure shape returns Err(Serde), and the venue object is not filled
\* from that body: it keeps its fields, with ok false.
C2_NeitherShapeIsSerde ==
  (/\ last.op = "venue_heartbeat"
   /\ GotBody
   /\ ~SuccessShape(last.net.body)
   /\ ~FailureShape(last.net.body)) =>
    /\ IsErr
    /\ last.ret.err = "Serde"
    /\ venue = [last.pre.venue EXCEPT !.ok = FALSE]

\* C3: after a refresh or a get_quote that fails, the snapshot's ok is false
\* and every other field has the value it had before the call.
C3_FailureKeepsStaleData ==
  /\ (last.op = "refresh" /\ IsErr) =>
       book = [last.pre.book EXCEPT !.ok = FALSE]
  /\ (last.op = "get_quote" /\ IsErr) =>
       quote = [last.pre.quote EXCEPT !.ok = FALSE]

\* A refresh failed on a book that was ok and had bids.
C3_Witness ==
  /\ last.op = "refresh"
  /\ IsErr
  /\ last.pre.book.ok
  /\ last.pre.book.bids # <<>>
  /\ book.bids = last.pre.book.bids
  /\ ~book.ok

\* C4: a venue heartbeat that receives a success-shape body with ok true
\* returns Ok(true), and the venue object is exactly what the body says:
\* venue and ok from the body, error from the body or "" when omitted.
C4_SuccessReplacesVenue ==
  (/\ last.op = "venue_heartbeat"
   /\ GotBody
   /\ SuccessShape(last.net.body)
   /\ last.net.body.val["ok"].b
   /\ "error" \in last.net.body.keys => Has(last.net.body, "error", "str")) =>
    /\ last.ret = Ok(TRUE)
    /\ venue = [venue |-> last.net.body.val["venue"].s,
                ok |-> TRUE,
                error |-> IF "error" \in last.net.body.keys
                          THEN last.net.body.val["error"].s ELSE ""]

\* {"ok":true,"venue":"TESTEX"} arrived at a venue object that held an error
\* message, and the message is gone.
C4_Witness ==
  /\ last.op = "venue_heartbeat"
  /\ last.net = Body(VenueSuccessBody("TESTEX"))
  /\ last.pre.venue.error # ""
  /\ venue = [venue |-> "TESTEX", ok |-> TRUE, error |-> ""]
  /\ last.ret = Ok(TRUE)

\* C5: a call sends at most one request, also when it fails, and a
\* process_order that returns Ok has sent exactly one POST.
C5_OneRequestPerCall ==
  /\ Len(last.reqs) <= 1
  /\ (last.op = "process_order" /\ IsOk) =>
       Len(last.reqs) = 1 /\ last.reqs[1].method = "POST"

\* A process_order returned an accepted order.
C5_Witness ==
  /\ last.op = "process_order"
  /\ IsOk
  /\ last.ret.resp.ok
  /\ Len(last.reqs) = 1

\* C6: when get_quote returns Ok(val), val is the ok of the decoded
\* response, which is quote.ok after the call.
C6_QuoteReturnsDecodedOk ==
  (last.op = "get_quote" /\ IsOk) => last.ret.flag = quote.ok

\* The struct a single-shape operation decodes its body into.
ShapeOf(op) ==
  CASE op = "process_order" -> OrderResponse
    [] op = "refresh" -> OrderBook
    [] op = "get_quote" -> Quote

\* C7: process_order, refresh and get_quote never return NoSuchVenue, and a
\* body that does not parse as the operation's one shape is Err(Serde).
C7_SingleShapeDecoding ==
  last.op \in {"process_order", "refresh", "get_quote"} =>
    /\ last.ret.err # "NoSuchVenue"
    /\ (GotBody /\ ~from_str_ok(last.net.body, ShapeOf(last.op))) =>
         IsErr /\ last.ret.err = "Serde"
    /\ (GotBody /\ FailureShape(last.net.body)
          /\ last.op \in {"refresh", "get_quote"}) =>
         IsErr /\ last.ret.err = "Serde"

\* get_quote received the failure-shape body and reported Serde.
C7_Witness ==
  /\ last.op = "get_quote"
  /\ last.net = Body(VenueFailureBody)
  /\ IsErr
  /\ last.ret.err = "Serde"

\* The wire keys of a quote by JSON type; ok, symbol and venue are required.
QuoteNumKeys ==
  {"bid", "ask", "bidSize", "askSize", "bidDepth", "askDepth", "last",
   "lastSize"}
QuoteStrKeys == {"symbol", "venue", "lastTrade", "quoteTime"}
QuoteBody(b) ==
  /\ b.wf
  /\ {"ok", "symbol", "venue"} \subseteq b.keys
  /\ b.val["ok"].t = "bool"
  /\ \A k \in b.keys \cap QuoteNumKeys : b.val[k].t = "num"
  /\ \A k \in b.keys \cap QuoteStrKeys : b.val[k].t = "str"

\* C8: a quote body that omits optional fields decodes without error, and
\* after get_quote every omitted numeric field is 0 and every omitted string
\* field is "", whatever the snapshot held before.
C8_OmittedFieldsAreDefaults ==
  (last.op = "get_quote" /\ GotBody /\ QuoteBody(last.net.body)) =>
    /\ IsOk
    /\ \A i \in 1..Len(Quote) :
         Quote[i].key \notin last.net.body.keys =>
           quote[Quote[i].name] = (IF Quote[i].key \in QuoteNumKeys
                                   THEN 0 ELSE "")

\* A body without last and lastSize arrived at a quote that had them set.
C8_Witness ==
  /\ last.op = "get_quote"
  /\ GotBody
  /\ QuoteBody(last.net.body)
  /\ {"last", "lastSize"} \cap last.net.body.keys = {}
  /\ last.pre.quote.last # 0
  /\ last.pre.quote.last_size # 0
  /\ quote.last = 0
  /\ quote.last_size = 0

\* C9: every request of a venue heartbeat, a refresh or a get_quote goes to
\* the endpoint of the venue and symbol the object was constructed with.
C9_UrlIsConstructedIdentity ==
  /\ last.op = "venue_heartbeat" =>
       last.reqs[1].url =
         <<STOCKFIGHTER_API_URL, "venues", args.venue, "heartbeat">>
  /\ last.op = "refresh" =>
       last.reqs[1].url =
         <<STOCKFIGHTER_API_URL, "venues", args.venue, "stocks", args.symbol>>
  /\ last.op = "get_quote" =>
       last.reqs[1].url =
         <<STOCKFIGHTER_API_URL, "venues", args.venue, "stocks", args.symbol,
           "quote">>

\* The ok flag of the object the last call was made on.
TargetOk ==
  CASE last.op = "venue_heartbeat" -> venue.ok
    [] last.op = "api_heartbeat" -> api.ok
    [] last.op = "stock_listing" -> stocks.ok
    [] last.op = "refresh" -> book.ok
    [] last.op = "get_quote" -> quote.ok
    [] OTHER -> FALSE

\* C10: the ok flag of a refreshable object is true only if the most recent
\* call on it returned Ok from a response whose ok was true; after a call
\* that returned Err it is false.
C10_OkOnlyAfterOkResponse ==
  /\ TargetOk =>
       /\ IsOk
       /\ GotBody
       /\ Has(last.net.body, "ok", "bool")
       /\ last.net.body.val["ok"].b
  /\ (last.op # "new" /\ last.op # "process_order" /\ IsErr) => ~TargetOk

====
